---------------------------- MODULE Spec2Model ----------------------------
(***************************************************************************)
(* Model of zed's soft-wrap layer, src/editor/display_map/wrap_map.rs:     *)
(* the transform sequence of a Snapshot, the chunk iterator over it, the   *)
(* incremental recomputation BackgroundWrapper::sync, and the WrapMap      *)
(* orchestration (edit queue, background worker, watch channel).           *)
(*                                                                         *)
(* Text is a sequence of one-character strings; every character is one     *)
(* byte, so a column counts characters and bytes alike.                    *)
(***************************************************************************)
EXTENDS Integers, Sequences, FiniteSets, TLC

(***************************************************************************)
(* Bounds of the model.                                                    *)
(***************************************************************************)
\* longest input text, in characters
MaxLen == 4
\* number of WrapMap::sync calls in a run
MaxSubmits == 2
\* longest chunk the input layer's chunk iterator yields
ChunkLen == 2
\* most edits submitted in a run, over all its batches
MaxEdits == 2
\* most characters one edit removes, and most it inserts
MaxSpan == 1

\* Config::wrap_width, measured in characters of a fixed-width font
wrap_width == 1

NL == "\n"
Alphabet == {"a", NL}
None == "None"

(***************************************************************************)
(* Points (crate::editor::Point, wrapped by InputPoint and OutputPoint).   *)
(***************************************************************************)
Pt(r, c) == [row |-> r, column |-> c]

PointZero == Pt(0, 0)

\* Point::is_zero
IsZero(p) == p.row = 0 /\ p.column = 0

\* Point += Point: rows add; the column restarts when the right side spans a row
PointAdd(a, b) ==
    IF b.row = 0 THEN Pt(a.row, a.column + b.column)
    ELSE Pt(a.row + b.row, b.column)

\* Point - Point (other <= self)
PointSub(a, b) ==
    IF a.row = b.row THEN Pt(0, a.column - b.column)
    ELSE Pt(a.row - b.row, a.column)

\* derived Ord on (row, column)
PointLess(a, b) == a.row < b.row \/ (a.row = b.row /\ a.column < b.column)

PointLeq(a, b) == a = b \/ PointLess(a, b)

(***************************************************************************)
(* Text helpers of the input layer (tab_map::Snapshot).                    *)
(***************************************************************************)
SubText(t, from, to) == IF from > to THEN << >> ELSE SubSeq(t, from, to)

\* the text after its first n characters
Drop(t, n) == SubText(t, n + 1, Len(t))

\* the first n characters of the text
Take(t, n) == SubText(t, 1, IF n < Len(t) THEN n ELSE Len(t))

\* TextSummary::default()
SummaryZero ==
    [lines |-> PointZero, first_line_chars |-> 0, last_line_chars |-> 0,
     longest_row |-> 0, longest_row_chars |-> 0]

\* one step of TextSummary::from(&str): account for character c
SummaryPush(s, c) ==
    LET lines == IF c = NL THEN Pt(s.lines.row + 1, 0)
                 ELSE Pt(s.lines.row, s.lines.column + 1)
        last  == IF c = NL THEN 0 ELSE s.last_line_chars + 1
        first == IF lines.row = 0 THEN last ELSE s.first_line_chars
        lng   == last > s.longest_row_chars
    IN [lines |-> lines, first_line_chars |-> first, last_line_chars |-> last,
        longest_row |-> IF lng THEN lines.row ELSE s.longest_row,
        longest_row_chars |-> IF lng THEN last ELSE s.longest_row_chars]

RECURSIVE SummaryOf(_)
\* TextSummary::from(&str)
SummaryOf(t) ==
    IF t = << >> THEN SummaryZero
    ELSE SummaryPush(SummaryOf(SubSeq(t, 1, Len(t) - 1)), t[Len(t)])

\* TextSummary += &TextSummary
SummaryAdd(a, b) ==
    LET joined == a.last_line_chars + b.first_line_chars
        l1row  == IF joined > a.longest_row_chars THEN a.lines.row ELSE a.longest_row
        l1ch   == IF joined > a.longest_row_chars THEN joined ELSE a.longest_row_chars
        l2row  == IF b.longest_row_chars > l1ch THEN a.lines.row + b.longest_row ELSE l1row
        l2ch   == IF b.longest_row_chars > l1ch THEN b.longest_row_chars ELSE l1ch
    IN [lines |-> PointAdd(a.lines, b.lines),
        first_line_chars |-> IF a.lines.row = 0
                             THEN a.first_line_chars + b.first_line_chars
                             ELSE a.first_line_chars,
        last_line_chars |-> IF b.lines.row = 0
                            THEN a.last_line_chars + b.first_line_chars
                            ELSE b.last_line_chars,
        longest_row |-> l2row,
        longest_row_chars |-> l2ch]

\* the point of the character offset off (0-based) in the text
ToPoint(t, off) == SummaryOf(Take(t, off)).lines

\* Snapshot::max_point of the input layer
max_point(t) == ToPoint(t, Len(t))

\* the offset (0-based) of point p in the text, clipped to the text
ToOffset(t, p) ==
    LET Reached == {o \in 0..Len(t) : PointLeq(ToPoint(t, o), p)}
    IN CHOOSE o \in Reached : \A o2 \in Reached : o2 <= o

\* tab_map::Snapshot::text_summary_for_rows(rows)
text_summary_for_rows(t, from, to) ==
    LET a == ToOffset(t, Pt(from, 0))
        b == ToOffset(t, Pt(to, 0))
    IN SummaryOf(SubText(t, a + 1, b))

\* tab_map::Snapshot::chunks_at(point): the text from the point on, in chunks
RECURSIVE ChunksOf(_)
ChunksOf(t) ==
    IF t = << >> THEN << >>
    ELSE <<Take(t, ChunkLen)>> \o ChunksOf(Drop(t, ChunkLen))

input_chunks_at(t, p) == ChunksOf(Drop(t, ToOffset(t, p)))

\* FontSystem::wrap_line for a fixed-width font: a break every wrap_width
\* characters of the line's content, never in front of the line's line-feed
wrap_line(line) ==
    LET content == IF line # << >> /\ line[Len(line)] = NL
                   THEN Len(line) - 1 ELSE Len(line)
        n == IF content = 0 THEN 0 ELSE (content - 1) \div wrap_width
    IN [k \in 1..n |-> k * wrap_width]

(***************************************************************************)
(* Transforms and their summaries.                                         *)
(***************************************************************************)
TransformSummary(i, o) == [input |-> i, output |-> o]

\* the body of Transform::isomorphic past its zero-length check
IsomorphicOf(summary) ==
    [summary |-> TransformSummary(summary, summary), display_text |-> None]

\* Transform::newline
newline ==
    [summary |-> TransformSummary(SummaryZero,
                    [lines |-> Pt(1, 0), first_line_chars |-> 0,
                     last_line_chars |-> 0, longest_row |-> 0,
                     longest_row_chars |-> 0]),
     display_text |-> NL]

IsIsomorphic(tr) == tr.display_text = None

\* sum_tree::Summary::add_summary for TransformSummary
add_summary(a, b) ==
    TransformSummary(SummaryAdd(a.input, b.input), SummaryAdd(a.output, b.output))

RECURSIVE TreeSummary(_)
\* SumTree::summary: the sum of the items' summaries
TreeSummary(trs) ==
    IF trs = << >> THEN TransformSummary(SummaryZero, SummaryZero)
    ELSE add_summary(TreeSummary(SubSeq(trs, 1, Len(trs) - 1)),
                     trs[Len(trs)].summary)

RECURSIVE InputEnd(_, _)
\* Dimension InputPoint: the input position at the end of item i
InputEnd(trs, i) ==
    IF i = 0 THEN PointZero
    ELSE PointAdd(InputEnd(trs, i - 1), trs[i].summary.input.lines)

RECURSIVE OutputEnd(_, _)
\* Dimension OutputPoint: the output position at the end of item i
OutputEnd(trs, i) ==
    IF i = 0 THEN PointZero
    ELSE PointAdd(OutputEnd(trs, i - 1), trs[i].summary.output.lines)

(***************************************************************************)
(* Cursor over a transform sequence.  A cursor position is an index in     *)
(* 1..Len+1, Len+1 being the end of the tree.                              *)
(***************************************************************************)
\* Cursor::seek / seek_forward by InputPoint with Bias::Right from position
\* from: the first item that ends after the target
SeekInput(trs, from, target) ==
    LET Hit == {i \in from..Len(trs) : PointLess(target, InputEnd(trs, i))}
    IN IF Hit = {} THEN Len(trs) + 1
       ELSE CHOOSE i \in Hit : \A j \in Hit : i <= j

\* Cursor::seek by OutputPoint with Bias::Right
SeekOutput(trs, target) ==
    LET Hit == {i \in 1..Len(trs) : PointLess(target, OutputEnd(trs, i))}
    IN IF Hit = {} THEN Len(trs) + 1
       ELSE CHOOSE i \in Hit : \A j \in Hit : i <= j

\* Cursor::seek_end: the end of the current item, the tree's extent at the end
seek_end(trs, pos) ==
    IF pos <= Len(trs) THEN InputEnd(trs, pos) ELSE InputEnd(trs, Len(trs))

\* Cursor::next
CursorNext(trs, pos) == IF pos <= Len(trs) THEN pos + 1 ELSE pos

(***************************************************************************)
(* Snapshots.  An input snapshot is [text, version].                       *)
(***************************************************************************)
InputSnapshot(t, v) == [text |-> t, version |-> v]

\* Snapshot::new: one transform spanning the whole input, built without
\* the zero-length check of Transform::isomorphic
SnapshotNew(input) ==
    [transforms |-> <<IsomorphicOf(SummaryOf(input.text))>>,
     input |-> input,
     version |-> input.version]

(***************************************************************************)
(* BackgroundWrapper::sync.  The sequence under construction is carried    *)
(* as [nt, pos, fault]: new_transforms, the position of old_cursor, and    *)
(* whether Transform::isomorphic has panicked.                             *)
(***************************************************************************)
\* new_transforms.push(Transform::isomorphic(summary)): panics on a
\* zero-length summary
PushIsomorphic(acc, summary) ==
    IF acc.fault THEN acc
    ELSE IF IsZero(summary.lines) THEN [acc EXCEPT !.fault = TRUE]
    ELSE [acc EXCEPT !.nt = Append(@, IsomorphicOf(summary))]

\* new_transforms.push(Transform::newline())
PushNewline(acc) ==
    IF acc.fault THEN acc ELSE [acc EXCEPT !.nt = Append(@, newline)]

\* a RowEdit whose new row range leaves out the row of the edit's end
RowEditExclusive(edit) ==
    [old_rows |-> [start |-> edit.old_lines.start.row,
                   end |-> edit.old_lines.end.row + 1],
     new_rows |-> [start |-> edit.new_lines.start.row,
                   end |-> edit.new_lines.end.row]]

\* InputEdit -> RowEdit
RowEdit(edit) ==
    [old_rows |-> [start |-> edit.old_lines.start.row,
                   end |-> edit.old_lines.end.row + 1],
     new_rows |-> [start |-> edit.new_lines.start.row,
                   end |-> edit.new_lines.end.row + 1]]

RECURSIVE WrapBoundaries(_, _, _, _)
\* the loop over wrap_line's boundaries: an isomorphic transform for the
\* text up to each boundary, followed by a wrap point; yields the
\* accumulator and prev_boundary_ix
WrapBoundaries(acc, line, bs, prev) ==
    IF bs = << >> THEN [acc |-> acc, prev |-> prev]
    ELSE WrapBoundaries(
            PushNewline(PushIsomorphic(acc, SummaryOf(SubText(line, prev + 1, bs[1])))),
            line, Tail(bs), bs[1])

\* a completed line (its line-feed included): its wrapped segments, then
\* the remainder after the last boundary
WrapLine(acc, line) ==
    LET w == WrapBoundaries(acc, line, wrap_line(line), 0)
    IN IF w.prev < Len(line)
       THEN PushIsomorphic(w.acc, SummaryOf(SubText(line, w.prev + 1, Len(line))))
       ELSE w.acc

\* whether the re-wrap loop leaves ('outer) once the row counter is row
RewrapStops(row, new_rows) == row = new_rows.end

RECURSIVE RewrapChunk(_, _, _, _)
\* the re-wrap loop over one chunk, from its character i on; st is
\* [acc, line, row, done]
RewrapChunk(st, chunk, i, new_rows) ==
    IF st.done \/ i > Len(chunk) THEN st
    ELSE IF chunk[i] = NL
    THEN RewrapChunk(
            [acc |-> WrapLine(st.acc, Append(st.line, NL)),
             line |-> << >>,
             row |-> st.row + 1,
             done |-> RewrapStops(st.row + 1, new_rows)],
            chunk, i + 1, new_rows)
    ELSE RewrapChunk([st EXCEPT !.line = Append(@, chunk[i])], chunk, i + 1, new_rows)

RECURSIVE RewrapChunks(_, _, _)
\* the re-wrap loop over the chunks of the new input
RewrapChunks(st, chunks, new_rows) ==
    IF st.done \/ chunks = << >> THEN st
    ELSE RewrapChunks(RewrapChunk(st, chunks[1], 1, new_rows), Tail(chunks), new_rows)

\* the re-wrap of one edit's new rows
Rewrap(acc, new_input, new_rows) ==
    RewrapChunks([acc |-> acc, line |-> << >>, row |-> new_rows.start, done |-> FALSE],
                 input_chunks_at(new_input.text, Pt(new_rows.start, 0)),
                 new_rows).acc

\* the isomorphic transform that fills the rows between the sequence built
\* so far and the edit's first new row
FillGap(acc, new_input, new_rows) ==
    LET have == TreeSummary(acc.nt).input.lines.row
    IN IF new_rows.start > have
       THEN PushIsomorphic(acc, text_summary_for_rows(new_input.text, have, new_rows.start))
       ELSE acc

\* old_cursor.seek_forward to the edit's old end row, and the isomorphic
\* transform for the rest of the old transform found there
SkipOld(acc, snapshot, old_rows) ==
    LET old  == snapshot.transforms
        pos  == SeekInput(old, acc.pos, Pt(old_rows.end, 0))
        stop == seek_end(old, pos).row
        at   == [acc EXCEPT !.pos = pos]
    IN IF stop > old_rows.end
       THEN PushIsomorphic(at, text_summary_for_rows(snapshot.input.text, old_rows.end, stop))
       ELSE at

\* the reuse of old transforms after an edit: up to the next edit's old
\* start row, or the whole old suffix after the last edit
ReuseOld(acc, snapshot, rows, k) ==
    LET old == snapshot.transforms
        nxt == CursorNext(old, acc.pos)
    IN IF k < Len(rows)
       THEN IF rows[k + 1].old_rows.start > seek_end(old, acc.pos).row
            THEN LET to == SeekInput(old, nxt, Pt(rows[k + 1].old_rows.start, 0))
                 IN [acc EXCEPT !.nt = @ \o SubText(old, nxt, to - 1), !.pos = to]
            ELSE acc
       ELSE [acc EXCEPT !.nt = @ \o SubText(old, nxt, Len(old)),
                        !.pos = Len(old) + 1]

RECURSIVE SyncEdits(_, _, _, _, _)
\* the loop over the edits, from edit k on
SyncEdits(acc, snapshot, new_input, rows, k) ==
    IF k > Len(rows) THEN acc
    ELSE LET a1 == FillGap(acc, new_input, rows[k].new_rows)
             a2 == Rewrap(a1, new_input, rows[k].new_rows)
             a3 == SkipOld(a2, snapshot, rows[k].old_rows)
             a4 == ReuseOld(a3, snapshot, rows, k)
         IN SyncEdits(a4, snapshot, new_input, rows, k + 1)

\* an empty-edit return that still adopts the new input's version
SyncEmptyAdoptsVersion(snapshot, new_input) ==
    [snapshot EXCEPT !.version = new_input.version]

\* the empty-edit return of sync
SyncEmpty(snapshot, new_input) == snapshot

\* a completion that replaces the transforms and keeps the old version
SyncCompleteKeepsVersion(snapshot, new_input, new_transforms) ==
    [snapshot EXCEPT !.transforms = new_transforms]

\* the completion of sync: the transforms and the version are replaced
SyncComplete(snapshot, new_input, new_transforms) ==
    [snapshot EXCEPT !.transforms = new_transforms,
                     !.version = new_input.version]

\* BackgroundWrapper::sync: the snapshot afterwards, and whether it panicked
sync(snapshot, new_input, edits) ==
    IF edits = << >>
    THEN [snapshot |-> SyncEmpty(snapshot, new_input), fault |-> FALSE]
    ELSE LET rows == [k \in 1..Len(edits) |-> RowEdit(edits[k])]
             old  == snapshot.transforms
             p0   == SeekInput(old, 1, Pt(rows[1].old_rows.start, 0))
             acc  == SyncEdits([nt |-> SubText(old, 1, p0 - 1), pos |-> p0, fault |-> FALSE],
                               snapshot, new_input, rows, 1)
         IN IF acc.fault THEN [snapshot |-> snapshot, fault |-> TRUE]
            ELSE [snapshot |-> SyncComplete(snapshot, new_input, acc.nt),
                  fault |-> FALSE]

\* the edit BackgroundWrapper::run builds for the initial wrap
WholeEdit(input) ==
    [old_lines |-> [start |-> PointZero, end |-> max_point(input.text)],
     new_lines |-> [start |-> PointZero, end |-> max_point(input.text)]]

\* the wrap of a whole input from scratch, as run and the tests do it
FullWrap(input) == sync(SnapshotNew(input), input, <<WholeEdit(input)>>)

(***************************************************************************)
(* Snapshot::chunks_at and Chunks::next.  The iterator is carried as       *)
(* [idx, input_chunks, input_chunk, input_position, out, fault]: the       *)
(* transform cursor, the input iterator's remaining chunks, the cached     *)
(* chunk, the input position, the chunks yielded so far and whether the    *)
(* unwrap of the input iterator has panicked.                              *)
(***************************************************************************)
\* Snapshot::chunks_at
chunks_at(snapshot, point) ==
    LET trs == snapshot.transforms
        idx == SeekOutput(trs, point)
        input_position == PointAdd(InputEnd(trs, idx - 1),
                                   PointSub(point, OutputEnd(trs, idx - 1)))
    IN [idx |-> idx,
        input_chunks |-> input_chunks_at(snapshot.input.text, input_position),
        input_chunk |-> << >>,
        input_position |-> input_position,
        out |-> << >>,
        fault |-> FALSE]

RECURSIVE ScanChunk(_, _, _, _)
\* the loop over the cached chunk's characters: [len, pos, hit] where len
\* is input_len, pos the input position and hit whether transform_end
\* was reached
ScanChunk(chunk, len, pos, transform_end) ==
    IF len = Len(chunk) THEN [len |-> len, pos |-> pos, hit |-> FALSE]
    ELSE LET c == chunk[len + 1]
             p == IF c = NL THEN Pt(pos.row + 1, 0) ELSE Pt(pos.row, pos.column + 1)
         IN IF PointLeq(transform_end, p)
            THEN [len |-> len + 1, pos |-> p, hit |-> TRUE]
            ELSE ScanChunk(chunk, len + 1, p, transform_end)

\* whether Chunks::next yields None
ChunksDone(snapshot, it) == it.fault \/ it.idx > Len(snapshot.transforms)

\* Chunks::next when it yields a chunk (or panics)
ChunksNext(snapshot, it) ==
    LET trs == snapshot.transforms
        transform == trs[it.idx]
    IN IF ~IsIsomorphic(transform)
       THEN [it EXCEPT !.idx = @ + 1, !.out = Append(@, <<transform.display_text>>)]
       ELSE IF it.input_chunk = << >> /\ it.input_chunks = << >>
       THEN [it EXCEPT !.fault = TRUE]
       ELSE LET chunk == IF it.input_chunk = << >> THEN Head(it.input_chunks)
                         ELSE it.input_chunk
                rest  == IF it.input_chunk = << >> THEN Tail(it.input_chunks)
                         ELSE it.input_chunks
                scan  == ScanChunk(chunk, 0, it.input_position, InputEnd(trs, it.idx))
            IN [idx |-> IF scan.hit THEN it.idx + 1 ELSE it.idx,
                input_chunks |-> rest,
                input_chunk |-> Drop(chunk, scan.len),
                input_position |-> scan.pos,
                out |-> Append(it.out, Take(chunk, scan.len)),
                fault |-> FALSE]

RECURSIVE ChunksRun(_, _)
\* the iterator run to exhaustion
ChunksRun(snapshot, it) ==
    IF ChunksDone(snapshot, it) THEN it
    ELSE ChunksRun(snapshot, ChunksNext(snapshot, it))

RECURSIVE Concat(_)
\* collect::<String>()
Concat(chunks) ==
    IF chunks = << >> THEN << >> ELSE Head(chunks) \o Concat(Tail(chunks))

\* snapshot.chunks_at(point).collect::<String>()
CollectChunks(snapshot, point) == Concat(ChunksRun(snapshot, chunks_at(snapshot, point)).out)

\* whether collecting the chunks panics
CollectFaults(snapshot, point) == ChunksRun(snapshot, chunks_at(snapshot, point)).fault

(***************************************************************************)
(* The input layer's edits: what a caller may hand to WrapMap::sync.       *)
(***************************************************************************)
RECURSIVE TextsOfLen(_)
TextsOfLen(n) ==
    IF n = 0 THEN {<< >>}
    ELSE {Append(t, c) : t \in TextsOfLen(n - 1), c \in Alphabet}

Texts == UNION {TextsOfLen(n) : n \in 0..MaxLen}

Inserts == UNION {TextsOfLen(n) : n \in 0..MaxSpan}

\* the replacements of characters i+1..j of text t by s that change t
Replacements(t, from) ==
    {r \in [i : from..Len(t), j : from..Len(t), s : Inserts] :
        /\ r.i <= r.j
        /\ r.j - r.i <= MaxSpan
        /\ r.s # SubText(t, r.i + 1, r.j)
        /\ Len(t) - (r.j - r.i) + Len(r.s) <= MaxLen}

Replace(t, r) == SubText(t, 1, r.i) \o r.s \o Drop(t, r.j)

\* the InputEdit of replacement r: old_lines in the old text (the
\* replacement's offsets shifted back by delta), new_lines in the new text
EditOf(told, tnew, r, delta) ==
    [old_lines |-> [start |-> ToPoint(told, r.i - delta),
                    end |-> ToPoint(told, r.j - delta)],
     new_lines |-> [start |-> ToPoint(tnew, r.i),
                    end |-> ToPoint(tnew, r.i + Len(r.s))]]

RECURSIVE BatchesFrom(_, _, _, _, _)
\* the ascending, non-overlapping edit lists of at most n more edits, each
\* with the text it leads to
BatchesFrom(told, tcur, from, delta, n) ==
    {[text |-> tcur, edits |-> << >>]} \cup
    IF n = 0 THEN {}
    ELSE UNION {
        LET tnew == Replace(tcur, r)
        IN {[text |-> b.text,
             edits |-> <<EditOf(told, tnew, r, delta)>> \o b.edits] :
               b \in BatchesFrom(told, tnew, r.i + Len(r.s) + 1,
                                 delta + Len(r.s) - (r.j - r.i), n - 1)} :
        r \in Replacements(tcur, from)}

\* the batches of at most n edits that change text t
Batches(t, n) == {b \in BatchesFrom(t, t, 0, 0, n) : b.edits # << >>}

(***************************************************************************)
(* State.                                                                  *)
(***************************************************************************)
VARIABLES
    input,      \* the input layer's current snapshot, as the caller holds it
    state,      \* WrapMap.state: [snapshot, interpolated_version]
    edits_tx,   \* the queue of (InputSnapshot, Vec<InputEdit>) batches
    wrapper,    \* BackgroundWrapper.snapshot
    pc,         \* where BackgroundWrapper::run is
    watch,      \* the watch channel: [value, unseen]
    observed,   \* what background_snapshots.next() yielded last (at most one)
    returned,   \* what WrapMap::sync returned last (at most one)
    caller_panicked, \* whether try_send(..).unwrap() panicked
    submitted,  \* history: every batch WrapMap::sync has sent
    published,  \* history: every snapshot the worker has sent
    queue_open, \* whether WrapMap.edits_tx, the queue's only sender, still exists
    subscribers, \* whether WrapMap.background_snapshots, the watch receiver, still exists
    late_batches \* history: the batches taken after the watch receiver was dropped

vars == <<input, state, edits_tx, wrapper, pc, watch, observed, returned,
          caller_panicked, submitted, published, queue_open, subscribers,
          late_batches>>

\* WrapMap::new
Init ==
    /\ input \in {InputSnapshot(t, 0) : t \in Texts}
    /\ state = [snapshot |-> SnapshotNew(input),
                interpolated_version |-> SnapshotNew(input).version]
    /\ edits_tx = << >>
    /\ wrapper = SnapshotNew(input)
    /\ pc = "init"
    /\ watch = [value |-> SnapshotNew(input), unseen |-> TRUE]
    /\ observed = << >>
    /\ returned = << >>
    /\ caller_panicked = FALSE
    /\ submitted = << >>
    /\ published = << >>
    /\ queue_open = TRUE
    /\ subscribers = TRUE
    /\ late_batches = 0

\* whether the worker task still holds edits_rx
WorkerAlive == pc \in {"init", "send", "recv"}

\* a WrapMap::sync that marks the cached state as interpolated to the new input
WrapMapSyncInterpolating(new_input, edits) ==
    /\ queue_open
    /\ ~caller_panicked
    /\ Len(submitted) < MaxSubmits
    /\ input' = new_input
    /\ IF WorkerAlive
       THEN /\ edits_tx' = Append(edits_tx, [input |-> new_input, edits |-> edits])
            /\ submitted' = Append(submitted, [input |-> new_input, edits |-> edits])
            /\ state' = [state EXCEPT !.interpolated_version = new_input.version]
            /\ returned' = <<state.snapshot>>
            /\ UNCHANGED caller_panicked
       ELSE /\ caller_panicked' = TRUE
            /\ UNCHANGED <<edits_tx, submitted, returned, state>>
    /\ UNCHANGED <<wrapper, pc, watch, observed, published, queue_open,
                   subscribers, late_batches>>

\* a WrapMap::sync over a queue of capacity one: a full queue is an error too
WrapMapSyncBounded(new_input, edits) ==
    /\ queue_open
    /\ ~caller_panicked
    /\ Len(submitted) < MaxSubmits
    /\ input' = new_input
    /\ IF WorkerAlive /\ edits_tx = << >>
       THEN /\ edits_tx' = Append(edits_tx, [input |-> new_input, edits |-> edits])
            /\ submitted' = Append(submitted, [input |-> new_input, edits |-> edits])
            /\ returned' = <<state.snapshot>>
            /\ UNCHANGED caller_panicked
       ELSE /\ caller_panicked' = TRUE
            /\ UNCHANGED <<edits_tx, submitted, returned>>
    /\ UNCHANGED <<state, wrapper, pc, watch, observed, published, queue_open,
                   subscribers, late_batches>>

\* WrapMap::sync(new_input, edits)
WrapMapSync(new_input, edits) ==
    /\ queue_open
    /\ ~caller_panicked
    /\ Len(submitted) < MaxSubmits
    /\ input' = new_input
    /\ IF WorkerAlive
       THEN /\ edits_tx' = Append(edits_tx, [input |-> new_input, edits |-> edits])
            /\ submitted' = Append(submitted, [input |-> new_input, edits |-> edits])
            /\ returned' = <<state.snapshot>>
            /\ UNCHANGED caller_panicked
       ELSE /\ caller_panicked' = TRUE
            /\ UNCHANGED <<edits_tx, submitted, returned>>
    /\ UNCHANGED <<state, wrapper, pc, watch, observed, published, queue_open,
                   subscribers, late_batches>>

RECURSIVE EditsIn(_)
\* the number of edits in a sequence of batches
EditsIn(batches) ==
    IF batches = << >> THEN 0
    ELSE Len(Head(batches).edits) + EditsIn(Tail(batches))

\* a caller syncs after the input layer changed
SubmitEdits ==
    \E b \in Batches(input.text, MaxEdits - EditsIn(submitted)) :
        WrapMapSync(InputSnapshot(b.text, input.version + 1), b.edits)

\* a caller syncs with nothing to report
SubmitNothing ==
    \E v \in {input.version, input.version + 1} :
        WrapMapSync(InputSnapshot(input.text, v), << >>)

\* the worker after one sync call: on to the send, or dead by panic
AfterSync(r) ==
    IF r.fault
    THEN /\ pc' = "panicked"
         /\ UNCHANGED wrapper
    ELSE /\ pc' = "send"
         /\ wrapper' = r.snapshot

\* a run that goes to its first send without wrapping the input
WorkerInitWithoutWrap ==
    /\ pc = "init"
    /\ pc' = "send"
    /\ UNCHANGED <<input, state, edits_tx, wrapper, watch, observed, returned,
                   caller_panicked, submitted, published, queue_open,
                   subscribers, late_batches>>

\* BackgroundWrapper::run up to its first send: the wrap of the whole input
WorkerInit ==
    /\ pc = "init"
    /\ AfterSync(sync(wrapper, wrapper.input, <<WholeEdit(wrapper.input)>>))
    /\ UNCHANGED <<input, state, edits_tx, watch, observed, returned,
                   caller_panicked, submitted, published, queue_open,
                   subscribers, late_batches>>

\* a send whose error is ignored: run goes on to the next recv
WorkerSendIgnoringError ==
    /\ pc = "send"
    /\ IF subscribers
       THEN /\ watch' = [value |-> wrapper, unseen |-> TRUE]
            /\ published' = Append(published, wrapper)
       ELSE UNCHANGED <<watch, published>>
    /\ pc' = "recv"
    /\ UNCHANGED <<input, state, edits_tx, wrapper, observed, returned,
                   caller_panicked, submitted, queue_open, subscribers,
                   late_batches>>

\* snapshots_tx.send(self.snapshot.clone()).await: the value is published
\* while a receiver exists; otherwise the send is an error and run returns
WorkerSend ==
    /\ pc = "send"
    /\ IF subscribers
       THEN /\ watch' = [value |-> wrapper, unseen |-> TRUE]
            /\ published' = Append(published, wrapper)
            /\ pc' = "recv"
       ELSE /\ pc' = "done"
            /\ UNCHANGED <<watch, published>>
    /\ UNCHANGED <<input, state, edits_tx, wrapper, observed, returned,
                   caller_panicked, submitted, queue_open, subscribers,
                   late_batches>>

\* a queue that hands out its newest batch first
DequeueNewest(q) == [batch |-> q[Len(q)], rest |-> SubText(q, 1, Len(q) - 1)]

\* the batch edits_rx.recv() yields and the queue it leaves
Dequeue(q) == [batch |-> Head(q), rest |-> Tail(q)]

\* one turn of run's loop: edits_rx.recv().await, then self.sync
WorkerRecv ==
    /\ pc = "recv"
    /\ edits_tx # << >>
    /\ LET d == Dequeue(edits_tx)
       IN /\ edits_tx' = d.rest
          /\ AfterSync(sync(wrapper, d.batch.input, d.batch.edits))
    /\ late_batches' = IF subscribers THEN late_batches ELSE late_batches + 1
    /\ UNCHANGED <<input, state, watch, observed, returned,
                   caller_panicked, submitted, published, queue_open,
                   subscribers>>

\* edits_rx.recv().await on a closed and drained queue: the loop ends
WorkerRecvClosed ==
    /\ pc = "recv"
    /\ edits_tx = << >>
    /\ ~queue_open
    /\ pc' = "done"
    /\ UNCHANGED <<input, state, edits_tx, wrapper, watch, observed, returned,
                   caller_panicked, submitted, published, queue_open,
                   subscribers, late_batches>>

\* background_snapshots.next().await
SubscriberNext ==
    /\ subscribers
    /\ watch.unseen
    /\ observed' = <<watch.value>>
    /\ watch' = [watch EXCEPT !.unseen = FALSE]
    /\ UNCHANGED <<input, state, edits_tx, wrapper, pc, returned,
                   caller_panicked, submitted, published, queue_open,
                   subscribers, late_batches>>

\* the WrapMap is dropped, first field: edits_tx goes and the queue closes
CloseQueue ==
    /\ queue_open
    /\ queue_open' = FALSE
    /\ UNCHANGED <<input, state, edits_tx, wrapper, pc, watch, observed,
                   returned, caller_panicked, submitted, published,
                   subscribers, late_batches>>

\* the drop goes on: background_snapshots, the only watch receiver, goes
DropSubscribers ==
    /\ ~queue_open
    /\ subscribers
    /\ subscribers' = FALSE
    /\ UNCHANGED <<input, state, edits_tx, wrapper, pc, watch, observed,
                   returned, caller_panicked, submitted, published,
                   queue_open, late_batches>>

Next ==
    \/ SubmitEdits
    \/ SubmitNothing
    \/ WorkerInit
    \/ WorkerSend
    \/ WorkerRecv
    \/ WorkerRecvClosed
    \/ SubscriberNext
    \/ CloseQueue
    \/ DropSubscribers

Spec == Init /\ [][Next]_vars

(***************************************************************************)
(* One batch of one edit, on inputs one character longer: the runs that    *)
(* show what BackgroundWrapper::sync does with a single edit of a wrapped  *)
(* input, the WrapMap neither dropped nor synced again.                    *)
(***************************************************************************)
LongTexts == UNION {TextsOfLen(n) : n \in 0..(MaxLen + 1)}

\* WrapMap::new on an input of up to MaxLen + 1 characters
SingleEditInit ==
    /\ input \in {InputSnapshot(t, 0) : t \in LongTexts}
    /\ state = [snapshot |-> SnapshotNew(input),
                interpolated_version |-> SnapshotNew(input).version]
    /\ edits_tx = << >>
    /\ wrapper = SnapshotNew(input)
    /\ pc = "init"
    /\ watch = [value |-> SnapshotNew(input), unseen |-> TRUE]
    /\ observed = << >>
    /\ returned = << >>
    /\ caller_panicked = FALSE
    /\ submitted = << >>
    /\ published = << >>
    /\ queue_open = TRUE
    /\ subscribers = TRUE
    /\ late_batches = 0

\* the one sync of the run: a batch of one edit
SubmitSingleEdit ==
    /\ submitted = << >>
    /\ \E b \in Batches(input.text, 1) :
           WrapMapSync(InputSnapshot(b.text, input.version + 1), b.edits)

SingleEditNext ==
    \/ SubmitSingleEdit
    \/ WorkerInit
    \/ WorkerSend
    \/ WorkerRecv

SingleEditSpec == SingleEditInit /\ [][SingleEditNext]_vars

(***************************************************************************)
(* Reference definitions the properties are stated with.                   *)
(***************************************************************************)
\* the input snapshot given to WrapMap::new
InitialInput == state.snapshot.input

\* the input snapshot the k-th published snapshot is computed for: the
\* initial input, then the input of each batch in turn
InputOf(k) == IF k = 1 THEN InitialInput ELSE submitted[k - 1].input

\* the batches the worker has taken off the queue
Processed == Len(submitted) - Len(edits_tx)

RECURSIVE InsertBreaks(_, _, _)
\* a line with a line-feed inserted at each of the offsets bs
InsertBreaks(line, bs, prev) ==
    IF bs = << >> THEN Drop(line, prev)
    ELSE SubText(line, prev + 1, bs[1]) \o <<NL>> \o InsertBreaks(line, Tail(bs), bs[1])

\* the first line of a non-empty text, its line-feed included
FirstLine(t) ==
    LET Ends == {i \in 1..Len(t) : t[i] = NL}
    IN IF Ends = {} THEN t
       ELSE Take(t, CHOOSE i \in Ends : \A j \in Ends : i <= j)

RECURSIVE WrappedText(_)
\* the text with one line-feed inserted at each wrap offset of each line
WrappedText(t) ==
    IF t = << >> THEN << >>
    ELSE LET line == FirstLine(t)
         IN InsertBreaks(line, wrap_line(line), 0) \o WrappedText(Drop(t, Len(line)))

RECURSIVE Reconstruct(_, _)
\* the output text of the snapshot's first n transforms: the held input's
\* text for an isomorphic transform, one line-feed for a wrap point
Reconstruct(snapshot, n) ==
    IF n = 0 THEN << >>
    ELSE LET trs == snapshot.transforms
             t   == snapshot.input.text
         IN Reconstruct(snapshot, n - 1) \o
            (IF IsIsomorphic(trs[n])
             THEN SubText(t, ToOffset(t, InputEnd(trs, n - 1)) + 1,
                             ToOffset(t, InputEnd(trs, n)))
             ELSE <<NL>>)

OutputText(snapshot) == Reconstruct(snapshot, Len(snapshot.transforms))

\* neither the worker nor the subscriber has a step left to take: under
\* fair scheduling every run without further submissions ends here
Quiescent ==
    /\ pc \notin {"init", "send"}
    /\ ~(pc = "recv" /\ (edits_tx # << >> \/ ~queue_open))
    /\ ~(subscribers /\ watch.unseen)

\* every snapshot the program holds or has published
Snapshots ==
    {state.snapshot, wrapper, watch.value} \cup {published[k] : k \in 1..Len(published)}

(***************************************************************************)
(* Properties.                                                             *)
(***************************************************************************)
\* C1: when the previous snapshot is the from-scratch wrap of the old input
\* and a non-empty batch is applied, the recomputed transform sequence
\* equals the from-scratch wrap of the batch's input.
C1_IncrementalEqualsFullWrap ==
    \A k \in 2..Len(published) :
        (/\ submitted[k - 1].edits # << >>
         /\ published[k - 1].transforms = FullWrap(InputOf(k - 1)).snapshot.transforms)
        => published[k].transforms = FullWrap(InputOf(k)).snapshot.transforms

\* C2: for every published snapshot, the chunks of chunks_at(zero)
\* concatenate to the input text with a line-feed at each wrap offset.
C2_RoundTrip ==
    \A k \in 1..Len(published) :
        /\ ~CollectFaults(published[k], PointZero)
        /\ CollectChunks(published[k], PointZero) = WrappedText(InputOf(k).text)

\* C3: in every published snapshot the input-side summaries of the
\* transforms sum to the extent of the input it was computed for.
C3_SummaryAdditive ==
    \A k \in 1..Len(published) :
        TreeSummary(published[k].transforms).input.lines = max_point(InputOf(k).text)

\* C4: for every snapshot and every output position p of its document, the
\* chunks of chunks_at(p) concatenate to the suffix from p of the output
\* text reconstructed transform by transform.
C4_ChunksMatchReconstruction ==
    \A s \in Snapshots :
        LET out == OutputText(s)
        IN \A o \in 0..Len(out) :
              /\ ~CollectFaults(s, ToPoint(out, o))
              /\ CollectChunks(s, ToPoint(out, o)) = Drop(out, o)

\* C5: every snapshot's version is the version of the input it holds, and
\* a snapshot computed for a batch holds that batch's input.
C5_VersionMatchesInput ==
    /\ \A s \in Snapshots : s.version = s.input.version
    /\ \A k \in 2..Len(published) :
          /\ published[k].version = submitted[k - 1].input.version
          /\ published[k].input = submitted[k - 1].input

\* C6: the queue holds the submitted batches not yet taken, in submission
\* order; the worker takes a batch only after every batch before it has
\* its snapshot published; and the k-th snapshot published after the
\* initial wrap is sync applied to the (k-1)-th with the k-th batch.
C6_BatchesInOrder ==
    /\ edits_tx = SubText(submitted, Processed + 1, Len(submitted))
    /\ pc = "init" => (Processed = 0 /\ published = << >>)
    /\ pc = "recv" => Len(published) = Processed + 1
    /\ pc \in {"send", "panicked"} => Len(published) = Processed
    /\ \A k \in 1..(Len(published) - 1) :
          published[k + 1] =
              sync(published[k], submitted[k].input, submitted[k].edits).snapshot

\* two different batches have each been processed and published
C6_Witness ==
    /\ Len(published) = 3
    /\ submitted[1].edits # << >>
    /\ submitted[2].edits # << >>
    /\ published[2] # published[3]

\* C7: a WrapMap::sync call appends its batch to the queue, returns the
\* snapshot cached before the call, and changes neither the cached state
\* nor anything of the worker.
C7_SyncReturnsCached ==
    [][Len(submitted') > Len(submitted) =>
          /\ returned' = <<state.snapshot>>
          /\ state' = state
          /\ edits_tx' = Append(edits_tx, submitted'[Len(submitted')])
          /\ wrapper' = wrapper
          /\ pc' = pc]_vars

\* a call has returned a snapshot that does not reflect the edits it submitted
C7_Witness ==
    /\ returned # << >>
    /\ submitted # << >>
    /\ submitted[Len(submitted)].edits # << >>
    /\ returned[1].version # submitted[Len(submitted)].input.version

\* C8: once the worker has processed a batch, a later WrapMap::sync
\* returns the snapshot computed for that batch or a later one.
C8_CachedFollowsWorker ==
    [][(Len(submitted') > Len(submitted) /\ Len(published) >= 2) =>
          returned'[1] \in {published[Len(published)], wrapper}]_vars

\* C9: once the worker and the subscriber have no step left to take, every
\* submitted batch has its snapshot published and the subscriber, while it
\* exists, has observed the last of them.
C9_LatestDelivered ==
    (Quiescent /\ subscribers) =>
        /\ Len(published) = Len(submitted) + 1
        /\ observed = <<published[Len(published)]>>

\* C10: when the worker takes a batch with an empty edit list, its
\* snapshot (transforms, held input, version) stays as it was.
C10_EmptyBatchNoop ==
    [][(pc = "recv" /\ Len(edits_tx') < Len(edits_tx) /\ Head(edits_tx).edits = << >>) =>
          (wrapper' = wrapper /\ pc' = "send")]_vars

\* an empty batch carrying a newer version has been processed and the
\* snapshot published after it is the one published before it
C10_Witness ==
    /\ Len(published) >= 2
    /\ submitted[1].edits = << >>
    /\ submitted[1].input.version # published[1].version
    /\ published[2] = published[1]

\* C11 as stated: each recomputation the worker publishes (the initial wrap,
\* then one per dequeued batch) has a version strictly greater than the one
\* published before it.
C11_VersionsStrictlyIncrease ==
    \A k \in 1..(Len(published) - 1) :
        published[k + 1].version > published[k].version

\* C11 as amended: the version of the published snapshots never decreases,
\* and the snapshot published for a batch with a non-empty edit list has a
\* version strictly greater than the one published before it.
C11_VersionsNeverDecrease ==
    \A k \in 1..(Len(published) - 1) :
        /\ published[k + 1].version >= published[k].version
        /\ submitted[k].edits # << >> =>
               published[k + 1].version > published[k].version

\* an empty batch kept the version and the non-empty batch after it raised it
C11_Witness ==
    /\ Len(published) = 3
    /\ submitted[1].edits = << >>
    /\ submitted[2].edits # << >>
    /\ published[2].version = published[1].version
    /\ published[3].version > published[2].version

\* C12 as stated: once the watch receiver is dropped the worker takes no
\* further batch off the queue.
C12_NoBatchAfterDrop == late_batches = 0

\* C12 as amended: once the watch receiver is dropped the worker ends at its
\* next send: a worker about to send takes no batch any more, a worker
\* waiting for a batch takes at most one, and the recomputation of a taken
\* batch runs to its end before the worker returns.  A worker that returned
\* while the receiver exists found the queue closed and drained, with every
\* batch published.
C12_StopsAtNextSend ==
    /\ late_batches <= 1
    /\ (~subscribers /\ pc = "recv") => late_batches = 0
    /\ late_batches = 1 => published # << >>
    /\ (published # << >> /\ late_batches = 1 /\ pc # "panicked") =>
           /\ pc \in {"send", "done"}
           /\ wrapper = sync(published[Len(published)],
                             submitted[Processed].input,
                             submitted[Processed].edits).snapshot
    /\ pc = "done" =>
           \/ ~subscribers
           \/ (~queue_open /\ edits_tx = << >> /\ Len(published) = Len(submitted) + 1)

\* the worker took one batch after the receiver was dropped, recomputed for
\* it, and returned with another batch still queued
C12_Witness ==
    /\ ~subscribers
    /\ pc = "done"
    /\ late_batches = 1
    /\ edits_tx # << >>
    /\ wrapper # published[Len(published)]

\* C13: a WrapMap::sync call fails exactly when the worker has let go of
\* the queue's receiver, and then it panics; otherwise its batch is
\* appended to the queue, however many batches the queue holds.
C13_SubmitFailsOnlyWhenClosed ==
    [][(submitted' # submitted \/ caller_panicked' # caller_panicked) =>
          IF WorkerAlive
          THEN /\ caller_panicked' = caller_panicked
               /\ edits_tx' = Append(edits_tx, submitted'[Len(submitted')])
          ELSE /\ caller_panicked'
               /\ edits_tx' = edits_tx
               /\ submitted' = submitted]_vars

\* a batch was accepted while another was still queued
C13_Witness ==
    /\ Len(edits_tx) = 2
    /\ ~caller_panicked

\* C14: in every snapshot the program holds or has published, every
\* isomorphic transform covers a non-empty span of the input.
C14_NoZeroLengthIsomorphic ==
    \A s \in Snapshots :
        \A i \in 1..Len(s.transforms) :
            IsIsomorphic(s.transforms[i]) =>
                ~IsZero(s.transforms[i].summary.input.lines)

\* the transforms of a sequence that lie in the rows before row r
RowsBefore(trs, r) ==
    SubText(trs, 1, SeekInput(trs, 1, Pt(r, 0)) - 1)

\* the transforms of a sequence that lie in the rows from row r on
RowsFrom(trs, r) ==
    LET In == {i \in 1..Len(trs) : PointLeq(Pt(r, 0), InputEnd(trs, i - 1))}
    IN IF In = {} THEN << >>
       ELSE SubText(trs, CHOOSE i \in In : \A j \in In : i <= j, Len(trs))

\* the k-th batch is one edit that changes one row, leaves the number of
\* rows as it is, and meets the from-scratch wrap of the input before it
SingleRowEdit(k) ==
    /\ Len(submitted[k].edits) = 1
    /\ LET e == RowEdit(submitted[k].edits[1])
       IN /\ e.old_rows = e.new_rows
          /\ e.old_rows.end = e.old_rows.start + 1
    /\ published[k].transforms = FullWrap(InputOf(k)).snapshot.transforms

\* C15: when a batch of one edit changes one row of a wrapped input, the
\* transforms of the rows before the edited row and those of the rows after
\* it are, in order, the start and the end of the new transform sequence.
C15_OtherRowsKept ==
    \A k \in 1..(Len(published) - 1) :
        SingleRowEdit(k) =>
            LET old == published[k].transforms
                new == published[k + 1].transforms
                r   == RowEdit(submitted[k].edits[1]).old_rows.start
                pre == RowsBefore(old, r)
                suf == RowsFrom(old, r + 1)
            IN /\ Len(new) >= Len(pre) + Len(suf)
               /\ SubText(new, 1, Len(pre)) = pre
               /\ SubText(new, Len(new) - Len(suf) + 1, Len(new)) = suf

\* the transforms the re-wrap step of sync appends for the one edit of a
\* batch, after the prefix slice and the gap fill
RewrapEmitted(snapshot, new_input, edit) ==
    LET e   == RowEdit(edit)
        old == snapshot.transforms
        p0  == SeekInput(old, 1, Pt(e.old_rows.start, 0))
        a1  == FillGap([nt |-> SubText(old, 1, p0 - 1), pos |-> p0, fault |-> FALSE],
                       new_input, e.new_rows)
        a2  == Rewrap(a1, new_input, e.new_rows)
    IN SubText(a2.nt, Len(a1.nt) + 1, Len(a2.nt))

\* row r of a text, its line-feed included when it has one
RowLine(t, r) == SubText(t, ToOffset(t, Pt(r, 0)) + 1, ToOffset(t, Pt(r + 1, 0)))

RECURSIVE Segments(_, _, _)
\* the transforms of a line with the wrap offsets bs, from offset prev on:
\* an isomorphic segment and a wrap point for each offset, then an
\* isomorphic remainder when text is left
Segments(line, bs, prev) ==
    IF bs = << >>
    THEN IF prev < Len(line) THEN <<IsomorphicOf(SummaryOf(Drop(line, prev)))>>
         ELSE << >>
    ELSE <<IsomorphicOf(SummaryOf(SubText(line, prev + 1, bs[1]))), newline>>
         \o Segments(line, Tail(bs), bs[1])

\* the transforms of one line
LineSegments(line) == Segments(line, wrap_line(line), 0)

RECURSIVE RowsSegments(_, _, _)
\* the transforms of the rows from..to-1 of a text, row by row
RowsSegments(t, from, to) ==
    IF from >= to THEN << >>
    ELSE LineSegments(RowLine(t, from)) \o RowsSegments(t, from + 1, to)

\* an edit that only deletes text
PureDeletion(edit) == edit.new_lines.start = edit.new_lines.end

\* a pure deletion that takes a line-feed away, so that rows collapse
CollapsingDeletion(edit) ==
    /\ PureDeletion(edit)
    /\ edit.old_lines.end.row > edit.old_lines.start.row

\* C16 as stated: for a batch of one edit that is a pure deletion
\* collapsing rows, the re-wrap step of sync appends no transform.
C16_DeletionEmitsNoRewrap ==
    \A k \in 1..(Len(published) - 1) :
        (Len(submitted[k].edits) = 1 /\ CollapsingDeletion(submitted[k].edits[1])) =>
            RewrapEmitted(published[k], submitted[k].input, submitted[k].edits[1]) = << >>

\* C16 as amended: the new row range of a pure deletion is not empty but
\* the one row the deletion happened in, and the re-wrap step appends the
\* transforms of that row of the new input when the row ends with a
\* line-feed, and nothing when it is the unterminated last line.
C16_DeletionRewrapsItsRow ==
    \A k \in 1..(Len(published) - 1) :
        (Len(submitted[k].edits) = 1 /\ PureDeletion(submitted[k].edits[1])) =>
            LET edit == submitted[k].edits[1]
                rows == RowEdit(edit).new_rows
                line == RowLine(submitted[k].input.text, rows.start)
                done == line # << >> /\ line[Len(line)] = NL
            IN /\ rows.end = rows.start + 1
               /\ RewrapEmitted(published[k], submitted[k].input, edit) =
                      IF done
                      THEN LineSegments(line)
                      ELSE << >>

\* a deletion that collapsed two rows was processed, and the re-wrap step
\* appended the transforms of the row it left
C16_Witness ==
    /\ Len(published) = 2
    /\ Len(submitted[1].edits) = 1
    /\ CollapsingDeletion(submitted[1].edits[1])
    /\ RewrapEmitted(published[1], submitted[1].input, submitted[1].edits[1]) # << >>

\* C17: with batches whose edits are ascending and do not overlap, and wrap
\* offsets ascending and inside each line, no sync of the worker reaches
\* the panic of Transform::isomorphic on a zero-length summary.
C17_NoZeroLengthFault == pc # "panicked"

\* C18: for the edit of the initial wrap and for the edit of every batch
\* of one edit, the re-wrap step appends exactly the transforms of the
\* rows of the edit's new row range, each row as its isomorphic segments
\* separated by wrap points and its isomorphic remainder.
C18_RewrapCoversNewRows ==
    /\ published # << >> =>
           LET rows == RowEdit(WholeEdit(InitialInput)).new_rows
           IN RewrapEmitted(SnapshotNew(InitialInput), InitialInput,
                            WholeEdit(InitialInput))
                 = RowsSegments(InitialInput.text, rows.start, rows.end)
    /\ \A k \in 1..(Len(published) - 1) :
           Len(submitted[k].edits) = 1 =>
               LET edit == submitted[k].edits[1]
                   rows == RowEdit(edit).new_rows
               IN RewrapEmitted(published[k], submitted[k].input, edit)
                     = RowsSegments(submitted[k].input.text, rows.start, rows.end)

\* C19: until the worker's first step the watch channel holds the unwrapped
\* construction-time snapshot and no batch is taken; the first snapshot
\* published is the full wrap of the initial input; a batch is taken only
\* after that snapshot is published, and the snapshot published for the
\* first batch is sync applied to the wrapped snapshot; what a subscriber
\* observes is the construction-time snapshot or a published one.
C19_StartupOrder ==
    /\ pc = "init" =>
           /\ watch.value = SnapshotNew(InitialInput)
           /\ published = << >>
           /\ Processed = 0
    /\ published # << >> => published[1] = FullWrap(InitialInput).snapshot
    /\ Processed > 0 => published # << >>
    /\ Len(published) >= 2 =>
           published[2] = sync(FullWrap(InitialInput).snapshot,
                               submitted[1].input, submitted[1].edits).snapshot
    /\ observed # << >> =>
           \/ observed[1] = SnapshotNew(InitialInput)
           \/ \E k \in 1..Len(published) : observed[1] = published[k]

\* a subscriber holds the snapshot of the first batch, which is not what
\* the batch applied to the unwrapped snapshot gives
C19_Witness ==
    /\ Len(published) >= 2
    /\ submitted[1].edits # << >>
    /\ observed = <<published[2]>>
    /\ published[1] # SnapshotNew(InitialInput)
    /\ published[2] # sync(SnapshotNew(InitialInput),
                           submitted[1].input, submitted[1].edits).snapshot

\* C20: for every snapshot the worker has published and every output
\* position at which one of its transforms starts, running chunks_at from
\* there to exhaustion never panics on the unwrap of the input iterator.
C20_ChunksNeverFault ==
    \A k \in 1..Len(published) :
        \A i \in 0..Len(published[k].transforms) :
            ~CollectFaults(published[k], OutputEnd(published[k].transforms, i))

=============================================================================
